---- MODULE Spec2Model ----
(***************************************************************************)
(* A model of the to-do application: the route gate of src/proxy.ts, the   *)
(* axios interceptors, the NextAuth session hook and the TanStack Query    *)
(* hooks of the todos feature.                                             *)
(*                                                                         *)
(* Paths are sequences of one-character strings, so that startsWith and    *)
(* the matcher's regular expression are computed character by character.   *)
(***************************************************************************)
EXTENDS Integers, Sequences, FiniteSets, TLC

VARIABLES
    req,        \* the inbound request at the gate: path, credential state, outcome
    session,    \* the NextAuth session cookie: "none", "valid" or "expired"
    auth,       \* the token in the cookie, the server's secret, the last sign-in result
    sessionStatus, \* useSession().status in the browser
    todosState, \* the Redux store's todos slice: items, loading, error
    authToken,  \* localStorage["authToken"]: a token or Null
    location,   \* window.location: the page the browser is on
    since401,   \* a 401 was handled and no protected navigation or login followed yet
    remote,     \* the remote to-do collection: the set of its items
    remoteNext, \* the id the remote gives to the next created item
    cache,      \* the query cache: query key -> query state
    observed,   \* the query keys with a mounted observer
    mut,        \* the mutation hooks: kind -> status of its last invocation
    net,        \* the outbound requests: slot -> request, and its response once served
    ops         \* the number of operations the user has started so far

appVars == <<todosState, session, auth, sessionStatus, authToken, location, since401, remote, remoteNext, cache,
             observed, mut, net, ops>>
vars == <<req, todosState, session, auth, sessionStatus, authToken, location, since401, remote, remoteNext, cache,
          observed, mut, net, ops>>

-----------------------------------------------------------------------------
(* Character sequences used in paths and patterns *)

Slash == <<"/">>
Dot == <<".">>
sLogin == <<"l", "o", "g", "i", "n">>
sApi == <<"a", "p", "i">>
sAuth == <<"a", "u", "t", "h">>
sProtected == <<"p", "r", "o", "t", "e", "c", "t", "e", "d">>
sNext == <<"_", "n", "e", "x", "t">>
sStatic == <<"s", "t", "a", "t", "i", "c">>
sImage == <<"i", "m", "a", "g", "e">>
sFavicon == <<"f", "a", "v", "i", "c", "o", "n">>
sIco == <<"i", "c", "o">>
sTodos == <<"t", "o", "d", "o", "s">>
sError == <<"e", "r", "r", "o", "r">>

RootPath == Slash
LoginPath == Slash \o sLogin
ApiAuthPath == Slash \o sApi \o Slash \o sAuth
ApiProtectedPath == Slash \o sApi \o Slash \o sProtected
NextPath == Slash \o sNext
FaviconPath == Slash \o sFavicon \o Dot \o sIco

\* String.prototype.startsWith
StartsWith(s, p) == Len(p) <= Len(s) /\ SubSeq(s, 1, Len(p)) = p

-----------------------------------------------------------------------------
(* src/proxy.ts: config.matcher *)

\* In a regular expression "." matches any character; every other atom of the
\* patterns below is a literal character.
AnyChar == "ANY"

\* The alternatives of the negative lookahead of the third matcher.
LookaheadAlternatives ==
    { sLogin,
      sApi \o Slash \o sAuth,
      sNext \o Slash \o sStatic,
      sNext \o Slash \o sImage,
      sFavicon \o <<AnyChar>> \o sIco }

\* The regular expression alternative rx matches at the start of s.
RxMatchesAtStart(s, rx) ==
    /\ Len(rx) <= Len(s)
    /\ \A i \in 1..Len(rx) : rx[i] = AnyChar \/ rx[i] = s[i]

\* "/" : the root only.
MatchesRoot(path) == path = RootPath

\* "/api/protected/:path*" : the namespace root and everything below it.
MatchesApiProtected(path) ==
    \/ path = ApiProtectedPath
    \/ StartsWith(path, ApiProtectedPath \o Slash)

\* For comparison: a third matcher without its lookahead, "/(.*)".
MatchesCatchAllWithoutLookahead(path) == Len(path) >= 1 /\ Head(path) = "/"

\* "/((?!login|api/auth|_next/static|_next/image|favicon.ico).*)" : a slash,
\* then anything at whose start none of the alternatives matches.
MatchesCatchAll(path) ==
    /\ Len(path) >= 1
    /\ Head(path) = "/"
    /\ ~ \E rx \in LookaheadAlternatives : RxMatchesAtStart(Tail(path), rx)

\* The proxy runs on a request iff one of the matchers matches its path.
MatcherMatches(path) ==
    \/ MatchesRoot(path)
    \/ MatchesApiProtected(path)
    \/ MatchesCatchAll(path)

-----------------------------------------------------------------------------
(* src/proxy.ts: withAuth and callbacks.authorized *)

Null == "null"
Creds == {"valid", "absent", "invalid"}

\* withAuth decodes the session cookie: a token for a credential that verifies
\* and has not expired, null for an absent, expired or malformed one.
\* For comparison, a decoding that takes every credential that is present.
GetTokenUnverified(cred) == IF cred = "absent" THEN Null ELSE "jwt"

GetToken(cred) == IF cred = "valid" THEN "jwt" ELSE Null

publicRoutes == {LoginPath, ApiAuthPath}

authorized(token, pathname) ==
    IF token # Null THEN TRUE
    ELSE IF \E route \in publicRoutes : StartsWith(pathname, route) THEN TRUE
    ELSE FALSE

signIn == LoginPath

Admitted == [decision |-> "Admitted", redirect |-> Null]
Denied(to) == [decision |-> "Denied", redirect |-> to]

\* withAuth never asks for a credential on the paths of the authentication
\* protocol itself, on the sign-in and error pages, and under /_next and
\* /favicon.ico; on every other path it admits iff authorized says so and
\* otherwise redirects to pages.signIn.
WithAuthBuiltinPublic(pathname) ==
    \/ StartsWith(pathname, ApiAuthPath)
    \/ pathname \in {signIn, ApiAuthPath \o Slash \o sError}
    \/ StartsWith(pathname, NextPath)
    \/ StartsWith(pathname, FaviconPath)

\* For comparison: a withAuth that asks the authorized callback on every path
\* it runs on.
withAuthCallbackOnly(pathname, cred) ==
    IF authorized(GetToken(cred), pathname) THEN Admitted ELSE Denied(signIn)

withAuth(pathname, cred) ==
    IF WithAuthBuiltinPublic(pathname) THEN Admitted
    ELSE IF authorized(GetToken(cred), pathname) THEN Admitted
    ELSE Denied(signIn)

\* A faulty gate, for comparison: it asks every request for a valid token and
\* knows no public path.
GateTokenOnly(pathname, cred) ==
    IF GetToken(cred) # Null THEN Admitted ELSE Denied(signIn)

\* The gate as a whole: the proxy runs only where the matcher matches, and a
\* request it does not run on goes through.
Gate(pathname, cred) ==
    IF MatcherMatches(pathname) THEN withAuth(pathname, cred) ELSE Admitted

-----------------------------------------------------------------------------
(* The requests the gate is checked on *)

Heads ==
    { sLogin,
      sApi,
      sApi \o Slash \o sAuth,
      sApi \o Slash \o sProtected,
      sNext,
      sNext \o Slash \o sStatic,
      sNext \o Slash \o sImage,
      sFavicon \o Dot \o sIco,
      sFavicon \o <<"X">> \o sIco,
      sTodos }

Tails ==
    { <<>>,
      <<"/">>,
      <<"/", "x">>,
      <<"x">>,
      <<"X">>,
      <<"-", "a", "d", "m", "i", "n">>,
      <<"/", "c", "a", "l", "l", "b", "a", "c", "k", "/", "g", "o", "o", "g", "l", "e">> }

Paths == {RootPath} \cup { Slash \o h \o t : h \in Heads, t \in Tails }

Unclassified == [decision |-> "Unclassified", redirect |-> Null]

-----------------------------------------------------------------------------
(* The bounds of the model *)

MaxId == 2          \* the remote holds items with ids 1..MaxId
MaxReqs == 2        \* the request slots; a run uses the first limit of them
MaxOps == 3         \* the user starts at most MaxOps data operations in a run
AuthOps == 1        \* the same, in the runs that also move the session or the token
CacheOps == 2       \* the same, in the runs with two requests in flight
TimeOps == 3        \* the same, in the runs where staleTime and gcTime pass

\* Program constants
QueryRetry == 1     \* queries.retry
MutationRetry == 1  \* mutations.retry

Ids == 1..MaxId
Owners == {1, 2}
ReqIds == 1..MaxReqs

-----------------------------------------------------------------------------
(* src/types/index.ts: Todo, CreateTodoPayload, UpdateTodoPayload *)

Todo(id, userId, title, completed) ==
    [id |-> id, userId |-> userId, title |-> title, completed |-> completed]

\* No item: the value of an id the remote does not hold.
NoTodo == Todo(0, 0, "", FALSE)

CreatePayloads == [userId : Owners, title : {"a"}, completed : {FALSE}]
UpdatePayloads == [completed : BOOLEAN] \cup [userId : Owners]

-----------------------------------------------------------------------------
(* src/features/todos/store/todosSlice.ts: the query keys *)

\* The elements of a query key: a string or a number, which JavaScript never
\* finds equal to each other.
Str(s) == [str |-> s]
Num(n) == [num |-> n]

TODOS_QUERY_KEY == <<Str("todos")>>
SINGLE_TODO_QUERY_KEY(id) == TODOS_QUERY_KEY \o <<Num(id)>>
USER_TODOS_QUERY_KEY(userId) == TODOS_QUERY_KEY \o <<Str("user"), Num(userId)>>

Keys ==
    {TODOS_QUERY_KEY}
        \cup { SINGLE_TODO_QUERY_KEY(id) : id \in Ids }
        \cup { USER_TODOS_QUERY_KEY(u) : u \in Owners }

\* For comparison, the exact matching of a filter key.
ExactMatchKey(key, filter) == key = filter

\* For comparison: a matching that looks at the first element only.
FirstElementMatchKey(key, filter) == key[1] = filter[1]

\* TanStack Query's partial matching of a filter key: the filter is a prefix
\* of the key.
PartialMatchKey(key, filter) ==
    /\ Len(filter) <= Len(key)
    /\ SubSeq(key, 1, Len(filter)) = filter

-----------------------------------------------------------------------------
(* The query cache *)

\* The error of a query: the set with the status of its last failed fetch,
\* empty when the query has no error.
NoError == {}

\* A query the cache does not hold.  stale says that staleTime has passed since
\* the data was last written.  gcTimer is the removal timer of the query:
\* "none" when no timer is set, else when it was set: while the query had an
\* observer, or when or after its last observer left.
NoQuery ==
    [exists |-> FALSE, hasData |-> FALSE, data |-> <<>>, error |-> NoError,
     isInvalidated |-> FALSE, stale |-> FALSE, fetchReq |-> 0, gcTimer |-> "none"]

\* scheduleGc: the timer is set anew, for gcTime from now.
ScheduleGc(key) == IF key \in observed THEN "whileObserved" ELSE "afterObserved"

\* queryClient.setQueryData with the new data: the query is built when the
\* cache does not hold it, and a write ends in the success state.
SetQueryData(c, key, data) ==
    [c EXCEPT ![key] = [exists |-> TRUE, hasData |-> TRUE, data |-> data,
                        error |-> NoError, isInvalidated |-> FALSE,
                        stale |-> FALSE, fetchReq |-> c[key].fetchReq,
                        gcTimer |-> IF c[key].exists THEN c[key].gcTimer
                                    ELSE ScheduleGc(key)]]

\* The invalidation half of queryClient.invalidateQueries({queryKey}).
InvalidateQueries(c, filter) ==
    [k \in Keys |->
        IF c[k].exists /\ PartialMatchKey(k, filter)
        THEN [c[k] EXCEPT !.isInvalidated = TRUE]
        ELSE c[k]]

\* The queries invalidateQueries then refetches: the matching queries with an
\* observer.
ActiveMatching(c, obs, filter) ==
    { k \in Keys : c[k].exists /\ k \in obs /\ PartialMatchKey(k, filter) }

-----------------------------------------------------------------------------
(* src/lib/axios/interceptors.ts *)

Tokens == {"tok"}

Bearer(token) == <<"Bearer", token>>
NoHeader == <<>>

\* JavaScript's truthiness of a string or null.
Truthy(token) == token # Null /\ token # ""

\* A faulty interceptor, for comparison: it writes the header whatever is
\* stored.
RequestHeadersAlways(hasWindow, stored) ==
    [Authorization |-> Bearer(stored), ContentType |-> "application/json"]

\* The headers the request interceptor leaves on the request.

RequestHeaders(hasWindow, stored) ==
    LET token == IF hasWindow THEN stored ELSE Null
    IN  [Authorization |-> IF Truthy(token) THEN Bearer(token) ELSE NoHeader,
         ContentType |-> "application/json"]

\* The error statuses of a response; 0 stands for no response at all.  A served
\* request has status 200.
ErrorStatuses == {401, 403, 429, 0}

\* For comparison: an interceptor that treats a 403 as it treats a 401, and
\* one that sends the browser to the login page also when no response came.
StoredAfterErrorAlso403(status, hasWindow, stored) ==
    IF status \in {401, 403} /\ hasWindow THEN Null ELSE stored

LocationAfterErrorAlsoNoResponse(status, hasWindow, loc) ==
    IF status \in {401, 0} /\ hasWindow THEN LoginPath ELSE loc

\* localStorage["authToken"] after the response interceptor saw an error.
StoredAfterError(status, hasWindow, stored) ==
    IF status = 401 /\ hasWindow THEN Null ELSE stored

\* window.location after the response interceptor saw an error.
LocationAfterError(status, hasWindow, loc) ==
    IF status = 401 /\ hasWindow THEN LoginPath ELSE loc

\* For comparison: an error handler whose 403 branch rejects with an error of
\* its own, which has no response.
ResponseInterceptorReplacing403(status, data) ==
    IF status = 200
    THEN [fulfilled |-> TRUE, status |-> status, data |-> data]
    ELSE [fulfilled |-> FALSE, status |-> IF status = 403 THEN 0 ELSE status,
          data |-> <<>>]

\* What the caller of the instance gets: the response itself from the success
\* handler, Promise.reject(error) with the error it was given from the error
\* handler, whatever the status.
ResponseInterceptor(status, data) ==
    IF status = 200
    THEN [fulfilled |-> TRUE, status |-> status, data |-> data]
    ELSE [fulfilled |-> FALSE, status |-> status, data |-> <<>>]

-----------------------------------------------------------------------------
(* The remote collection behind todoApi *)

\* The items the remote holds, in the order of their ids: all of them when
\* userIdParam is 0 (no userId parameter), else those of that owner.
RemoteList(rem, userIdParam) ==
    SelectSeq([i \in Ids |-> rem[i]],
              LAMBDA t : t.id # 0 /\ (userIdParam = 0 \/ t.userId = userIdParam))

\* PATCH: the stored item with the payload's fields written over it.
Merge(item, payload) ==
    [f \in DOMAIN item |-> IF f \in DOMAIN payload THEN payload[f] ELSE item[f]]

-----------------------------------------------------------------------------
(* src/features/todos/store/todosSlice.ts: todoApi *)

\* A request slot: what axios sends, then the response it gets back.
\* kind is "query" or the mutation ("create", "update", "delete") the request
\* belongs to; failureCount is the retryer's count of failed attempts.
Request(method, path, userIdParam, body, kind, key) ==
    [phase |-> "sent", method |-> method, path |-> path, userIdParam |-> userIdParam,
     body |-> body, kind |-> kind, key |-> key,
     headers |-> [Authorization |-> NoHeader, ContentType |-> "application/json"],
     failureCount |-> 0, status |-> 0, data |-> <<>>]

NoReq == [Request("", <<>>, 0, <<>>, "", <<>>) EXCEPT !.phase = "none"]

ROUTES_TODOS == <<"todos">>

getAllTodos(key) == Request("GET", ROUTES_TODOS, 0, <<>>, "query", key)
getTodoById(id, key) == Request("GET", ROUTES_TODOS \o <<id>>, 0, <<>>, "query", key)
getTodosByUserId(userId, key) == Request("GET", ROUTES_TODOS, userId, <<>>, "query", key)
createTodo(payload) == Request("POST", ROUTES_TODOS, 0, payload, "create", <<>>)
updateTodo(id, payload) == Request("PATCH", ROUTES_TODOS \o <<id>>, 0, payload, "update", <<>>)
deleteTodo(id) == Request("DELETE", ROUTES_TODOS \o <<id>>, 0, <<>>, "delete", <<>>)

\* The queryFn of the query hook with this key.
QueryFn(key) ==
    IF key = TODOS_QUERY_KEY THEN getAllTodos(key)
    ELSE IF Len(key) = 2 THEN getTodoById(key[2].num, key)
    ELSE getTodosByUserId(key[3].num, key)

\* axios sends the request through the request interceptor.
Send(r, stored) == [r EXCEPT !.headers = RequestHeaders(TRUE, stored), !.phase = "sent"]

-----------------------------------------------------------------------------
(* The success callbacks of the mutation hooks.  Each gives the cache after   *)
(* its writes and the filter keys it passed to invalidateQueries.              *)

Prepend(x, list) == <<x>> \o list

\* A faulty map, for comparison: it returns the items it was given.
MapKeep(list, item) == list

\* oldData.map(todo => todo.id === item.id ? item : todo)
MapReplace(list, item) ==
    [i \in 1..Len(list) |-> IF list[i].id = item.id THEN item ELSE list[i]]

FilterOut(list, id) == SelectSeq(list, LAMBDA t : t.id # id)

\* Array.prototype.find: the first item with the id, NoTodo when none has it.
Find(list, id) ==
    IF \E i \in 1..Len(list) : list[i].id = id
    THEN list[CHOOSE i \in 1..Len(list) :
                /\ list[i].id = id
                /\ \A j \in 1..(i - 1) : list[j].id # id]
    ELSE NoTodo

\* useCreateTodo.onSuccess
CreateOnSuccess(c, newTodo) ==
    LET old == c[TODOS_QUERY_KEY]
        c1 == SetQueryData(c, TODOS_QUERY_KEY,
                           IF old.hasData THEN Prepend(newTodo, old.data)
                           ELSE <<newTodo>>)
    IN  [cache |-> InvalidateQueries(c1, USER_TODOS_QUERY_KEY(newTodo.userId)),
         filters |-> {USER_TODOS_QUERY_KEY(newTodo.userId)}]

\* useUpdateTodo.onSuccess
UpdateOnSuccess(c, updatedTodo) ==
    LET c1 == SetQueryData(c, SINGLE_TODO_QUERY_KEY(updatedTodo.id), updatedTodo)
        old == c1[TODOS_QUERY_KEY]
        c2 == SetQueryData(c1, TODOS_QUERY_KEY,
                           IF ~old.hasData THEN <<updatedTodo>>
                           ELSE MapReplace(old.data, updatedTodo))
    IN  [cache |-> InvalidateQueries(c2, USER_TODOS_QUERY_KEY(updatedTodo.userId)),
         filters |-> {USER_TODOS_QUERY_KEY(updatedTodo.userId)}]

\* useDeleteTodo.onSuccess
DeleteOnSuccess(c, id) ==
    LET old == c[TODOS_QUERY_KEY]
        todoToDelete == Find(old.data, id)
    IN  IF ~old.hasData
        THEN [cache |-> SetQueryData(c, TODOS_QUERY_KEY, <<>>), filters |-> {}]
        ELSE IF todoToDelete.id # 0
        THEN [cache |-> SetQueryData(
                            InvalidateQueries(c, USER_TODOS_QUERY_KEY(todoToDelete.userId)),
                            TODOS_QUERY_KEY, FilterOut(old.data, id)),
              filters |-> {USER_TODOS_QUERY_KEY(todoToDelete.userId)}]
        ELSE [cache |-> SetQueryData(c, TODOS_QUERY_KEY, FilterOut(old.data, id)),
              filters |-> {}]

OnSuccess(c, r) ==
    IF r.kind = "create" THEN CreateOnSuccess(c, r.data)
    ELSE IF r.kind = "update" THEN UpdateOnSuccess(c, r.data)
    ELSE DeleteOnSuccess(c, r.path[2])

-----------------------------------------------------------------------------
(* The application *)

MutKinds == {"create", "update", "delete"}
NavPaths == {RootPath, LoginPath}

\* The signing secrets the server can be started with (NEXTAUTH_SECRET).
Secrets == {"S1", "S2"}

NoUser == [id |-> Null, email |-> Null]
NoToken == [sub |-> Null, email |-> Null, id |-> Null]
NoJwt == [token |-> NoToken, signedWith |-> Null]
NoSession == [user |-> NoUser]
NoResult == [email |-> Null, password |-> Null, ok |-> FALSE, error |-> Null, user |-> NoUser]

\* The session cookie's content: the token, signed with the secret of the
\* server that issued it.
Encode(token, secret) == [token |-> token, signedWith |-> secret]

\* For comparison: a validation that does not verify the signature.
DecodeUnverified(jwt, secret, expired) ==
    IF jwt = NoJwt \/ expired THEN NoToken ELSE jwt.token

\* Validation of the cookie: the token, or none when there is no cookie, when
\* its expiry time has passed or when its signature does not verify against
\* the server's secret.
Decode(jwt, secret, expired) ==
    IF jwt = NoJwt \/ expired \/ jwt.signedWith # secret THEN NoToken ELSE jwt.token

\* The credential state the gate sees for the session cookie.
CredOf(s, a) ==
    IF s = "none" THEN "absent"
    ELSE IF Decode(a.jwt, a.secret, s = "expired") # NoToken THEN "valid"
    ELSE "invalid"

-----------------------------------------------------------------------------
(* src/features/todos/store/todosSlice.ts: the Redux slice *)

MaxItems == 3       \* the slice holds at most MaxItems items

initialState == [items |-> <<>>, loading |-> FALSE, error |-> Null]

\* The items a component dispatches: a new item is not completed, an updated
\* one may be.
NewTodos == {Todo(i, 1, "a", FALSE) : i \in Ids}
SliceTodos == {Todo(i, 1, "a", c) : i \in Ids, c \in BOOLEAN}
TodoLists == {<<>>} \cup {<<t>> : t \in NewTodos} \cup {<<t, u>> : t, u \in NewTodos}
SliceErrors == {Null, "failed"}

\* Array.prototype.findIndex on the id: the position of the first item with
\* the id, -1 when there is none.
FindIndex(items, id) ==
    IF \E i \in 1..Len(items) : items[i].id = id
    THEN CHOOSE i \in 1..Len(items) :
            /\ items[i].id = id
            /\ \A j \in 1..(i - 1) : items[j].id # id
    ELSE -1

todosSlice_setTodos(state, payload) == [state EXCEPT !.items = payload, !.error = Null]

todosSlice_addTodo(state, payload) == [state EXCEPT !.items = Append(@, payload)]

\* A faulty reducer, for comparison: it replaces every item with the id.
todosSlice_updateEveryMatch(state, payload) ==
    [state EXCEPT !.items =
        [i \in 1..Len(@) |-> IF @[i].id = payload.id THEN payload ELSE @[i]]]

todosSlice_updateTodo(state, payload) ==
    LET index == FindIndex(state.items, payload.id)
    IN  IF index # -1
        THEN [state EXCEPT !.items[index] = payload]
        ELSE state

todosSlice_deleteTodo(state, payload) ==
    [state EXCEPT !.items = SelectSeq(@, LAMBDA todo : todo.id # payload)]

todosSlice_setLoading(state, payload) == [state EXCEPT !.loading = payload]

todosSlice_setError(state, payload) == [state EXCEPT !.error = payload]

\* What a dispatch to the slice leaves alone: everything outside the store.
outsideStore == <<req, session, auth, sessionStatus, authToken, location, since401, remote,
                  remoteNext, cache, observed, mut, net, ops>>

\* dispatch(action): the store replaces the slice by the reducer's result.
DispatchSetTodos(payload) ==
    /\ todosState' = todosSlice_setTodos(todosState, payload)
    /\ UNCHANGED outsideStore

DispatchAddTodo(payload) ==
    /\ Len(todosState.items) < MaxItems
    /\ todosState' = todosSlice_addTodo(todosState, payload)
    /\ UNCHANGED outsideStore

DispatchUpdateTodo(payload) ==
    /\ todosState' = todosSlice_updateTodo(todosState, payload)
    /\ UNCHANGED outsideStore

DispatchDeleteTodo(payload) ==
    /\ todosState' = todosSlice_deleteTodo(todosState, payload)
    /\ UNCHANGED outsideStore

DispatchSetLoading(payload) ==
    /\ todosState' = todosSlice_setLoading(todosState, payload)
    /\ UNCHANGED outsideStore

DispatchSetError(payload) ==
    /\ todosState' = todosSlice_setError(todosState, payload)
    /\ UNCHANGED outsideStore

AppInit ==
    /\ todosState = initialState
    /\ authToken = Null
    /\ since401 = FALSE
    /\ remote = [i \in Ids |-> IF i = 1 THEN Todo(1, 1, "a", FALSE) ELSE NoTodo]
    /\ remoteNext = 2
    /\ cache = [k \in Keys |-> NoQuery]
    /\ observed = {}
    /\ mut = [m \in MutKinds |-> "idle"]
    /\ net = [i \in ReqIds |-> NoReq]
    /\ ops = 0


-----------------------------------------------------------------------------
(* Authentication: src/hooks/useRedux.ts (useAuth) and the Navbar *)

Emails == {"demo@example.com", "other@example.com"}
Passwords == {"password", "wrong"}

\* For comparison: a credentials provider that accepts any password of the
\* demo identity.
AuthorizeAnyPassword(email, password) == email = "demo@example.com"

\* The credentials provider's check: the one demo identity.
Authorize(email, password) == email = "demo@example.com" /\ password = "password"

\* The user record the credentials provider returns for the demo identity,
\* and the profile an OAuth provider returns.
DemoUser == [id |-> "1", email |-> "demo@example.com"]
OAuthUser == [id |-> "g1", email |-> "other@example.com"]

AuthorizeUser(email, password) == IF Authorize(email, password) THEN DemoUser ELSE NoUser

\* The token of a new sign-in before the callbacks run.
DefaultToken(user) == [sub |-> user.id, email |-> user.email, id |-> Null]

\* For comparison: a jwt callback that returns the token as it got it.
JwtCallbackWithoutId(token, user) == token

\* jwt: ({ token, user }) => { if (user) token.id = user.id; return token }
JwtCallback(token, user) == IF user # NoUser THEN [token EXCEPT !.id = user.id] ELSE token

\* The session built from a token before the session callback runs.
DefaultSession(token) == [user |-> [id |-> Null, email |-> token.email]]

\* session: ({ session, token }) => { if (session.user) session.user.id = token.id; ... }
SessionCallback(s, token) == IF s.user # NoUser THEN [s EXCEPT !.user.id = token.id] ELSE s

\* The session a caller gets (useSession, getServerSession): none unless the
\* cookie validates.
SessionOf(s, a) ==
    IF s = "none" \/ Decode(a.jwt, a.secret, s = "expired") = NoToken THEN NoSession
    ELSE SessionCallback(DefaultSession(Decode(a.jwt, a.secret, FALSE)),
                         JwtCallback(Decode(a.jwt, a.secret, FALSE), NoUser))

\* useSession().status: "loading" while the provider has no answer yet, then
\* whether the session endpoint gave a session.
Statuses == {"loading", "authenticated", "unauthenticated"}

StatusOf(s, a) ==
    IF SessionOf(s, a) # NoSession THEN "authenticated" ELSE "unauthenticated"

\* What signIn resolves to: ok, or the error of a refused sign-in.
SignInResult(email, password, user, error) ==
    [email |-> email, password |-> password, ok |-> user # NoUser,
     error |-> IF user # NoUser THEN Null ELSE error, user |-> user]

\* The cookie and the result after a sign-in: a new token for a user record,
\* the cookie as it was for none.
SignIn(a, user, result) ==
    [a EXCEPT !.jwt = IF user # NoUser
                      THEN Encode(JwtCallback(DefaultToken(user), user), a.secret)
                      ELSE @,
              !.result = result]

\* useAuth.login: signIn("credentials", {email, password, redirect: false}).
Login(email, password) ==
    /\ session' = IF Authorize(email, password) THEN "valid" ELSE session
    /\ auth' = SignIn(auth, AuthorizeUser(email, password),
                      SignInResult(email, password, AuthorizeUser(email, password),
                                   "InvalidCredentials"))
    /\ sessionStatus' = IF Authorize(email, password) THEN "authenticated" ELSE sessionStatus
    /\ since401' = IF Authorize(email, password) THEN FALSE ELSE since401
    /\ UNCHANGED <<todosState, req, authToken, location, remote, remoteNext, cache, observed,
                   mut, net, ops>>

\* Sign-in through an OAuth provider: the provider grants or refuses.
LoginOAuth(granted) ==
    /\ session' = IF granted THEN "valid" ELSE session
    /\ auth' = SignIn(auth, IF granted THEN OAuthUser ELSE NoUser,
                      SignInResult(OAuthUser.email, Null,
                                   IF granted THEN OAuthUser ELSE NoUser,
                                   "ProviderDenied"))
    /\ sessionStatus' = IF granted THEN "authenticated" ELSE sessionStatus
    /\ since401' = IF granted THEN FALSE ELSE since401
    /\ UNCHANGED <<todosState, req, authToken, location, remote, remoteNext, cache, observed,
                   mut, net, ops>>

\* The visitor before any sign-in, and the demo user after one, on a server
\* started with the first secret.
SignedOut == [jwt |-> NoJwt, secret |-> "S1", result |-> NoResult]
SignedIn ==
    [jwt |-> Encode(JwtCallback(DefaultToken(DemoUser), DemoUser), "S1"),
     secret |-> "S1",
     result |-> SignInResult("demo@example.com", "password", DemoUser, "InvalidCredentials")]

\* The server is restarted with another signing secret.
RotateSecret(secret) ==
    /\ secret # auth.secret
    /\ auth' = [auth EXCEPT !.secret = secret]
    /\ UNCHANGED <<todosState, req, session, sessionStatus, authToken, location, since401, remote, remoteNext,
                   cache, observed, mut, net, ops>>

\* The session cookie's expiry time passes.
Expire ==
    /\ session = "valid"
    /\ session' = "expired"
    /\ UNCHANGED <<todosState, req, auth, sessionStatus, authToken, location, since401, remote, remoteNext, cache,
                   observed, mut, net, ops>>

\* A page request goes through the gate; a denied one ends on the page the
\* gate redirects to.
Navigated(path, s) ==
    [path |-> path, cred |-> CredOf(s, auth), outcome |-> Gate(path, CredOf(s, auth)),
     n |-> 1 - req.n]

Landing(r) == IF r.outcome.decision = "Admitted" THEN r.path ELSE r.outcome.redirect

\* For comparison: a sign-out that also empties the query cache and removes
\* the stored token.
LogoutClearing ==
    /\ session # "none"
    /\ session' = "none"
    /\ auth' = [auth EXCEPT !.jwt = NoJwt]
    /\ sessionStatus' = "unauthenticated"
    /\ req' = Navigated(LoginPath, "none")
    /\ location' = Landing(req')
    /\ cache' = [k \in DOMAIN cache |->
                   [cache[k] EXCEPT !.exists = FALSE, !.hasData = FALSE, !.data = <<>>]]
    /\ authToken' = Null
    /\ UNCHANGED <<todosState, since401, remote, remoteNext, observed, mut, net, ops>>

\* Navbar.handleLogout: useAuth.logout, then router.push("/login").
Logout ==
    /\ session # "none"
    /\ session' = "none"
    /\ auth' = [auth EXCEPT !.jwt = NoJwt]
    /\ sessionStatus' = "unauthenticated"
    /\ req' = Navigated(LoginPath, "none")
    /\ location' = Landing(req')
    /\ UNCHANGED <<todosState, authToken, since401, remote, remoteNext, cache, observed, mut,
                   net, ops>>

\* The user opens a page.
Navigate(path) ==
    /\ req' = Navigated(path, session)
    /\ location' = Landing(req')
    /\ since401' = IF path = RootPath THEN FALSE ELSE since401
    /\ UNCHANGED <<todosState, session, auth, sessionStatus, authToken, remote, remoteNext, cache, observed, mut,
                   net, ops>>

\* LoginPage's effect: if (!isLoading && isAuthenticated) router.push("/").
LoginPageRedirects(st) == st # "loading" /\ st = "authenticated"

\* For comparison: a home page that does not wait for the session to load.
HomeRedirectsWhileLoading(st) == st # "authenticated"

\* Home's effect: if (!isLoading && !isAuthenticated) router.push("/login").
HomeRedirects(st) == st # "loading" /\ st # "authenticated"

\* What Home renders: the loading text, nothing, or the page with the list.
HomeRenders(st) ==
    IF st = "loading" THEN "loading"
    ELSE IF st # "authenticated" THEN "nothing"
    ELSE "todos"

\* The login page is shown to a user whose status is authenticated: the
\* router goes to /, through the gate.
LoginPageEffect ==
    /\ location = LoginPath
    /\ LoginPageRedirects(sessionStatus)
    /\ req' = Navigated(RootPath, session)
    /\ location' = Landing(req')
    /\ since401' = FALSE
    /\ UNCHANGED <<todosState, session, auth, sessionStatus, authToken, remote, remoteNext, cache,
                   observed, mut, net, ops>>

\* The home page is shown to a user whose status is unauthenticated: the
\* router goes to /login.
HomeEffect ==
    /\ location = RootPath
    /\ HomeRedirects(sessionStatus)
    /\ req' = Navigated(LoginPath, session)
    /\ location' = Landing(req')
    /\ UNCHANGED <<todosState, session, auth, sessionStatus, authToken, since401, remote, remoteNext,
                   cache, observed, mut, net, ops>>

\* The session provider gets the answer of the session endpoint.
SessionLoaded ==
    /\ sessionStatus = "loading"
    /\ sessionStatus' = StatusOf(session, auth)
    /\ UNCHANGED <<todosState, req, session, auth, authToken, location, since401, remote, remoteNext,
                   cache, observed, mut, net, ops>>

\* The session the browser holds, and the owner Home gives to TodoList:
\* parseInt(session.user.id || "1"), not a number for an id without digits.
ClientSession ==
    IF sessionStatus = "authenticated"
    THEN SessionCallback(DefaultSession(auth.jwt.token), auth.jwt.token)
    ELSE NoSession

NaN == 0
ParseInt(str) == IF str = "1" THEN 1 ELSE IF str = "2" THEN 2 ELSE NaN
HomeUserId(s) == ParseInt(IF s.user.id = Null THEN "1" ELSE s.user.id)

\* localStorage.setItem("authToken", token): the step the guide asks the
\* integrator to add after login; no code of the application performs it.
StoreAuthToken(token) ==
    /\ authToken # token
    /\ authToken' = token
    /\ UNCHANGED <<todosState, req, session, auth, sessionStatus, location, since401, remote, remoteNext, cache,
                   observed, mut, net, ops>>

-----------------------------------------------------------------------------
(* Queries *)

\* The free request slots among the first limit ones, and the one a new request
\* takes.
FreeSlots(limit) == { i \in 1..limit : net[i].phase = "none" }
NewSlot(limit) == CHOOSE i \in FreeSlots(limit) : \A j \in FreeSlots(limit) : i <= j

\* The observer's fetch on mount: the query has no data or is stale (by an
\* invalidation or by time); a fetch already in flight is joined, not repeated.
ShouldFetchIgnoringFlight(q) == ~q.hasData \/ q.isInvalidated \/ q.stale

ShouldFetchOnlyWithoutData(q) == ~q.hasData /\ q.fetchReq = 0

ShouldFetchAlways(q) == q.fetchReq = 0

ShouldFetchOnMount(q) ==
    (~q.hasData \/ q.isInvalidated \/ q.stale) /\ q.fetchReq = 0

\* Query.fetch for key in request slot id: a query without data goes back to
\* the pending state and drops its error, a query with data keeps both.
StartFetch(c, key, id) ==
    [c EXCEPT ![key].exists = TRUE, ![key].fetchReq = id,
              ![key].error = IF c[key].hasData THEN @ ELSE NoError]

\* A component using the query hook of key mounts: the observer fetches when
\* the query has no data or is invalidated, and joins a fetch in flight; the
\* removal timer of the query is cleared.
Mount(key, limit, budget) ==
    /\ key \notin observed
    /\ observed' = observed \cup {key}
    /\ IF ShouldFetchOnMount(cache[key])
       THEN /\ FreeSlots(limit) # {}
            /\ cache' = [StartFetch(cache, key, NewSlot(limit))
                            EXCEPT ![key].gcTimer = "none"]
            /\ net' = [net EXCEPT ![NewSlot(limit)] = Send(QueryFn(key), authToken)]
       ELSE /\ cache' = [cache EXCEPT ![key].exists = TRUE, ![key].gcTimer = "none"]
            /\ UNCHANGED net
    /\ ops < budget
    /\ ops' = ops + 1
    /\ UNCHANGED <<todosState, req, session, auth, sessionStatus, authToken, location, since401, remote, remoteNext, mut>>

\* For comparison: an unmount that leaves the removal timer as it is.
UnmountKeepingTimer(key) ==
    /\ key \in observed
    /\ observed' = observed \ {key}
    /\ UNCHANGED <<todosState, req, session, auth, sessionStatus, authToken, location, since401, remote, remoteNext,
                   cache, mut, net, ops>>

\* The component unmounts: the last observer of the query leaves, and the
\* removal timer is set anew.
Unmount(key) ==
    /\ key \in observed
    /\ observed' = observed \ {key}
    /\ cache' = [cache EXCEPT ![key].gcTimer = "afterObserved"]
    /\ UNCHANGED <<todosState, req, session, auth, sessionStatus, authToken, location, since401, remote, remoteNext,
                   mut, net, ops>>

\* staleTime passes since the data of key was written: the data is stale.
Age(key) ==
    /\ cache[key].hasData
    /\ ~cache[key].stale
    /\ cache' = [cache EXCEPT ![key].stale = TRUE]
    /\ UNCHANGED <<todosState, req, session, auth, sessionStatus, authToken, location, since401, remote, remoteNext,
                   observed, mut, net, ops>>

\* gcTime has passed since the removal timer of key was set, and it fires:
\* the cache removes the query when it has no observer and no fetch running,
\* and else keeps it, with no timer set.
Evict(key) ==
    /\ cache[key].exists
    /\ cache[key].gcTimer # "none"
    /\ cache' = IF key \notin observed /\ cache[key].fetchReq = 0
                THEN [cache EXCEPT ![key] = NoQuery]
                ELSE [cache EXCEPT ![key].gcTimer = "none"]
    /\ UNCHANGED <<todosState, req, session, auth, sessionStatus, authToken, location, since401, remote, remoteNext,
                   observed, mut, net, ops>>

\* What TodoList renders from the query q of its owner list: the loading text
\* during the first fetch, else the error text when the query has an error,
\* else the items (none when there is no data).
TodoListView(q) ==
    IF q.fetchReq # 0 /\ ~q.hasData THEN [shows |-> "loading", todos |-> <<>>]
    ELSE IF q.error # NoError THEN [shows |-> "error", todos |-> <<>>]
    ELSE [shows |-> "todos", todos |-> q.data]

-----------------------------------------------------------------------------
(* Mutations *)

\* An optimistic mutate, for comparison: a delete is written to the cache when
\* its request is sent.
MutateOptimistic(r, limit, budget) ==
    /\ mut[r.kind] # "pending"
    /\ FreeSlots(limit) # {}
    /\ net' = [net EXCEPT ![NewSlot(limit)] = Send(r, authToken)]
    /\ mut' = [mut EXCEPT ![r.kind] = "pending"]
    /\ cache' = IF r.kind = "delete" THEN DeleteOnSuccess(cache, r.path[2]).cache
                ELSE cache
    /\ ops < budget
    /\ ops' = ops + 1
    /\ UNCHANGED <<todosState, req, session, auth, sessionStatus, authToken, location, since401, remote, remoteNext,
                   observed>>

\* mutate(variables) of a mutation hook: the mutationFn sends its request.
Mutate(r, limit, budget) ==
    /\ mut[r.kind] # "pending"
    /\ FreeSlots(limit) # {}
    /\ net' = [net EXCEPT ![NewSlot(limit)] = Send(r, authToken)]
    /\ mut' = [mut EXCEPT ![r.kind] = "pending"]
    /\ ops < budget
    /\ ops' = ops + 1
    /\ UNCHANGED <<todosState, req, session, auth, sessionStatus, authToken, location, since401, remote, remoteNext,
                   cache, observed>>

MutateCreate(limit, budget) ==
    \E p \in CreatePayloads : Mutate(createTodo(p), limit, budget)
MutateUpdate(limit, budget) ==
    \E id \in Ids, p \in UpdatePayloads : Mutate(updateTodo(id, p), limit, budget)
MutateDelete(limit, budget) ==
    \E id \in Ids : Mutate(deleteTodo(id), limit, budget)

-----------------------------------------------------------------------------
(* The remote answers *)

\* The response to request r with the remote in state rem, when the remote
\* serves it: its status and data.
Served(r, rem, nextId) ==
    IF r.method = "GET" /\ Len(r.path) = 1
    THEN [status |-> 200, data |-> RemoteList(rem, r.userIdParam)]
    ELSE IF r.method = "GET"
    THEN IF rem[r.path[2]].id # 0
         THEN [status |-> 200, data |-> rem[r.path[2]]]
         ELSE [status |-> 404, data |-> <<>>]
    ELSE IF r.method = "POST"
    THEN [status |-> 200,
          data |-> Todo(nextId, r.body.userId, r.body.title, r.body.completed)]
    ELSE IF r.method = "PATCH"
    THEN IF rem[r.path[2]].id # 0
         THEN [status |-> 200, data |-> Merge(rem[r.path[2]], r.body)]
         ELSE [status |-> 404, data |-> <<>>]
    ELSE [status |-> 200, data |-> <<>>]

\* The remote collection after it served r with response resp.
RemoteAfter(r, rem, resp) ==
    IF resp.status # 200 THEN rem
    ELSE IF r.method \in {"POST", "PATCH"} THEN [rem EXCEPT ![resp.data.id] = resp.data]
    ELSE IF r.method = "DELETE" THEN [rem EXCEPT ![r.path[2]] = NoTodo]
    ELSE rem

\* The remote serves request i.
Serve(i) ==
    /\ net[i].phase = "sent"
    /\ net[i].method = "POST" => remoteNext <= MaxId
    /\ LET resp == Served(net[i], remote, remoteNext)
       IN  /\ net' = [net EXCEPT ![i].phase = "responded",
                                 ![i].status = resp.status, ![i].data = resp.data]
           /\ remote' = RemoteAfter(net[i], remote, resp)
           /\ remoteNext' = IF net[i].method = "POST" THEN remoteNext + 1 ELSE remoteNext
    /\ UNCHANGED <<todosState, req, session, auth, sessionStatus, authToken, location, since401, cache, observed, mut, ops>>

\* Request i fails: the remote refuses it with an error status, or no response
\* arrives (status 0).
Fail(i, status) ==
    /\ net[i].phase = "sent"
    /\ net' = [net EXCEPT ![i].phase = "responded", ![i].status = status]
    /\ UNCHANGED <<todosState, req, session, auth, sessionStatus, authToken, location, since401, remote, remoteNext,
                   cache, observed, mut, ops>>

-----------------------------------------------------------------------------
(* The client receives the responses *)

\* The retry option of the queries and of the mutations: the number of
\* retries after the first failure; and, for comparison, a retryer that
\* allows one more.
RetryOnceMore(kind) == IF kind = "query" THEN QueryRetry + 1 ELSE MutationRetry + 1

Retry(kind) == IF kind = "query" THEN QueryRetry ELSE MutationRetry

\* The fetch of request r is still the current fetch of its query.
Current(c, i, r) == r.kind # "query" \/ c[r.key].fetchReq = i

Fetched(c, key, data) ==
    [c EXCEPT ![key] = [exists |-> TRUE, hasData |-> TRUE, data |-> data,
                        error |-> NoError, isInvalidated |-> FALSE,
                        stale |-> FALSE, fetchReq |-> 0,
                        gcTimer |-> ScheduleGc(key)]]

\* A query fetch succeeds: its data goes to the cache, unless the fetch was
\* cancelled in the meantime.
ReceiveQuerySuccess(i) ==
    /\ net[i].phase = "responded"
    /\ ResponseInterceptor(net[i].status, net[i].data).fulfilled
    /\ net[i].kind = "query"
    /\ cache' = IF Current(cache, i, net[i])
                THEN Fetched(cache, net[i].key,
                             ResponseInterceptor(net[i].status, net[i].data).data)
                ELSE cache
    /\ net' = [net EXCEPT ![i] = NoReq]
    /\ UNCHANGED <<todosState, req, session, auth, sessionStatus, authToken, location, since401, remote, remoteNext,
                   observed, mut, ops>>

\* The queries invalidateQueries refetches after the writes of a success
\* callback: the active matching ones, except a query still on its first
\* fetch, which keeps that fetch.
Refetched(c, obs, filters) ==
    { k \in UNION { ActiveMatching(c, obs, f) : f \in filters } :
        c[k].fetchReq = 0 \/ c[k].hasData }

\* A mutation succeeds: onSuccess runs, and the invalidated active query is
\* fetched again (a fetch of it in flight is cancelled); the new fetch takes
\* the slot the mutation's request leaves.
ReceiveMutationSuccess(i) ==
    /\ net[i].phase = "responded"
    /\ ResponseInterceptor(net[i].status, net[i].data).fulfilled
    /\ net[i].kind \in MutKinds
    /\ mut' = [mut EXCEPT ![net[i].kind] = "success"]
    /\ LET res == OnSuccess(cache, net[i])
           again == Refetched(res.cache, observed, res.filters)
       IN  IF again = {}
           THEN /\ cache' = res.cache
                /\ net' = [net EXCEPT ![i] = NoReq]
           ELSE /\ Cardinality(again) = 1
                /\ LET k == CHOOSE x \in again : TRUE
                       old == res.cache[k].fetchReq
                   IN  /\ cache' = StartFetch(res.cache, k, i)
                       /\ net' = [j \in ReqIds |->
                                    IF j = i THEN Send(QueryFn(k), authToken)
                                    ELSE IF j = old /\ net[j].phase = "retrywait" THEN NoReq
                                    ELSE net[j]]
    /\ UNCHANGED <<todosState, req, session, auth, sessionStatus, authToken, location, since401, remote, remoteNext, observed, ops>>

\* The filter keys of the family: the keys themselves and the prefix of the
\* owner lists.
Filters == Keys \cup {TODOS_QUERY_KEY \o <<Str("user")>>}

\* queryClient.invalidateQueries({ queryKey: filter }): the matching queries
\* are marked invalidated, and those with an observer are fetched again, a
\* fetch of theirs in flight being cancelled, except a first fetch, which is
\* kept.  A new fetch takes a free slot, a restarted one keeps its slot.
Invalidate(filter, limit) ==
    /\ \E k \in Keys : cache[k].exists /\ PartialMatchKey(k, filter)
    /\ \E c1 \in {InvalidateQueries(cache, filter)} :
       \E again \in {Refetched(c1, observed, {filter})} :
       \E need \in {{ k \in again : c1[k].fetchReq = 0 }} :
          /\ Cardinality(need) <= Cardinality(FreeSlots(limit))
          /\ \E fresh \in {CHOOSE f \in [need -> FreeSlots(limit)] :
                                \A k1, k2 \in need : f[k1] = f[k2] => k1 = k2} :
             \E slot \in {[k \in again |->
                              IF k \in need THEN fresh[k] ELSE c1[k].fetchReq]} :
                /\ cache' = [k \in Keys |->
                                IF k \in again THEN StartFetch(c1, k, slot[k])[k]
                                ELSE c1[k]]
                /\ net' = [i \in ReqIds |->
                              IF \E k \in again : slot[k] = i
                              THEN Send(QueryFn(CHOOSE k \in again : slot[k] = i),
                                        authToken)
                              ELSE net[i]]
    /\ UNCHANGED <<todosState, req, session, auth, sessionStatus, authToken, location, since401, remote,
                   remoteNext, observed, mut, ops>>

\* A request fails: the response interceptor acts on the status (on a 401 the
\* browser loads the login page) and rejects;
\* the retryer tries again until the retry count is used up, and then the
\* query or mutation ends in the error state.
ReceiveFailure(i) ==
    /\ net[i].phase = "responded"
    /\ ~ResponseInterceptor(net[i].status, net[i].data).fulfilled
    /\ authToken' = StoredAfterError(net[i].status, TRUE, authToken)
    /\ location' = LocationAfterError(net[i].status, TRUE, location)
    /\ req' = IF location' # location THEN Navigated(location', session) ELSE req
    /\ sessionStatus' = IF location' # location THEN StatusOf(session, auth)
                        ELSE sessionStatus
    /\ since401' = IF net[i].status = 401 THEN TRUE ELSE since401
    /\ IF ~Current(cache, i, net[i])
       THEN /\ net' = [net EXCEPT ![i] = NoReq]
            /\ UNCHANGED <<cache, mut>>
       ELSE IF net[i].failureCount < Retry(net[i].kind)
       THEN /\ net' = [net EXCEPT ![i].phase = "retrywait",
                                  ![i].failureCount = net[i].failureCount + 1]
            /\ UNCHANGED <<cache, mut>>
       ELSE /\ net' = [net EXCEPT ![i] = NoReq]
            /\ IF net[i].kind = "query"
               THEN /\ cache' = [cache EXCEPT
                                   ![net[i].key].error =
                                       {ResponseInterceptor(net[i].status, net[i].data).status},
                                              ![net[i].key].fetchReq = 0,
                                              ![net[i].key].gcTimer = ScheduleGc(net[i].key)]
                    /\ mut' = mut
               ELSE /\ mut' = [mut EXCEPT ![net[i].kind] = "error"]
                    /\ cache' = cache
    /\ UNCHANGED <<todosState, session, auth, remote, remoteNext, observed, ops>>

\* The retry delay is over: the request is sent again.
RetrySend(i) ==
    /\ net[i].phase = "retrywait"
    /\ net' = [net EXCEPT ![i] = [Send(net[i], authToken) EXCEPT !.status = 0, !.data = <<>>]]
    /\ UNCHANGED <<todosState, req, session, auth, sessionStatus, authToken, location, since401, remote, remoteNext,
                   cache, observed, mut, ops>>

-----------------------------------------------------------------------------

\* The steps of the session: sign-in, sign-out, expiry, page navigation and
\* the storing of a bearer token.
AuthSteps ==
    \/ \E e \in Emails, p \in Passwords : Login(e, p)
    \/ \E g \in BOOLEAN : LoginOAuth(g)
    \/ Expire
    \/ Logout
    \/ \E p \in NavPaths : Navigate(p)
    \/ \E t \in Tokens : StoreAuthToken(t)

\* The steps of the data layer: at most budget operations of the user, at most
\* limit requests in flight, failures drawn from statuses.
DataSteps(limit, budget, statuses) ==
    \/ \E k \in Keys : Mount(k, limit, budget)
    \/ \E k \in Keys : Unmount(k)
    \/ MutateCreate(limit, budget)
    \/ MutateUpdate(limit, budget)
    \/ MutateDelete(limit, budget)
    \/ \E i \in ReqIds : Serve(i)
    \/ \E i \in ReqIds, s \in statuses : Fail(i, s)
    \/ \E i \in ReqIds : ReceiveQuerySuccess(i)
    \/ \E i \in ReqIds : ReceiveMutationSuccess(i)
    \/ \E i \in ReqIds : ReceiveFailure(i)
    \/ \E i \in ReqIds : RetrySend(i)

\* The data layer of a signed-in user on the home page, one request at a time,
\* with a remote that may answer 429.
Init ==
    /\ req = [path |-> RootPath, cred |-> "valid", outcome |-> Admitted, n |-> 0]
    /\ session = "valid"
    /\ auth = SignedIn
    /\ sessionStatus = "authenticated"
    /\ location = RootPath
    /\ AppInit

Next == DataSteps(1, MaxOps, {429})

Spec == Init /\ [][Next]_vars

\* The cache under concurrency: the same user, two requests in flight at a
\* time, and a remote that serves every request.
RaceNext ==
    \/ \E k \in Keys : Mount(k, 2, CacheOps)
    \/ \E k \in Keys : Unmount(k)
    \/ MutateCreate(2, CacheOps)
    \/ MutateUpdate(2, CacheOps)
    \/ MutateDelete(2, CacheOps)
    \/ \E i \in ReqIds : Serve(i)
    \/ \E i \in ReqIds : ReceiveQuerySuccess(i)
    \/ \E i \in ReqIds : ReceiveMutationSuccess(i)

RaceSpec == Init /\ [][RaceNext]_vars

\* The key family: the same user reads, the lists arrive, and the client
\* invalidates by filter key, as the guide shows.
KeyNext ==
    \/ \E k \in Keys : Mount(k, MaxReqs, CacheOps)
    \/ \E k \in Keys : Unmount(k)
    \/ \E f \in Filters : Invalidate(f, MaxReqs)
    \/ \E i \in ReqIds : Serve(i)
    \/ \E i \in ReqIds : ReceiveQuerySuccess(i)

KeySpec == Init /\ [][KeyNext]_vars

\* The cache under time: the same user reads and creates, one request at a
\* time, the remote answers every request (with a 404 for an item it does not
\* hold), and staleTime and gcTime may pass.
TimeNext ==
    \/ \E k \in Keys : Age(k)
    \/ \E k \in Keys : Evict(k)
    \/ \E k \in Keys : Mount(k, 1, TimeOps)
    \/ \E k \in Keys : Unmount(k)
    \/ MutateCreate(1, TimeOps)
    \/ \E i \in ReqIds : Serve(i)
    \/ \E i \in ReqIds : ReceiveQuerySuccess(i)
    \/ \E i \in ReqIds : ReceiveMutationSuccess(i)
    \/ \E i \in ReqIds : ReceiveFailure(i)
    \/ \E i \in ReqIds : RetrySend(i)

TimeSpec == Init /\ [][TimeNext]_vars

\* Removal from the cache: the same user reads and leaves, the remote answers,
\* and the removal timers fire; with the scheduling the event loop gives: a
\* timer that is set fires, the remote answers a request that was sent, and
\* an answer that arrived is received.
GcNext ==
    \/ \E k \in Keys : Evict(k)
    \/ \E k \in Keys : Mount(k, 1, CacheOps)
    \/ \E k \in Keys : Unmount(k)
    \/ \E i \in ReqIds : Serve(i)
    \/ \E i \in ReqIds : ReceiveQuerySuccess(i)
    \/ \E i \in ReqIds : ReceiveFailure(i)
    \/ \E i \in ReqIds : RetrySend(i)

GcSpec ==
    /\ Init /\ [][GcNext]_vars
    /\ WF_vars(\E k \in Keys : Evict(k))
    /\ WF_vars(\E i \in ReqIds : Serve(i))
    /\ WF_vars(\E i \in ReqIds : ReceiveQuerySuccess(i))
    /\ WF_vars(\E i \in ReqIds : ReceiveFailure(i))
    /\ WF_vars(\E i \in ReqIds : RetrySend(i))

\* The facade and the stored bearer token: the same user, a token that may be
\* stored at any time, and every failure status.
FacadeNext ==
    \/ \E t \in Tokens : StoreAuthToken(t)
    \/ DataSteps(1, AuthOps, ErrorStatuses)

FacadeSpec == Init /\ [][FacadeNext]_vars

\* The session and the data layer together: a visitor who starts signed out on
\* the login page; every failure status may occur.
AuthInit ==
    /\ req = [path |-> LoginPath, cred |-> "absent", outcome |-> Admitted, n |-> 0]
    /\ session = "none"
    /\ auth = SignedOut
    /\ sessionStatus = "unauthenticated"
    /\ location = LoginPath
    /\ AppInit

AuthNext == AuthSteps \/ DataSteps(1, AuthOps, ErrorStatuses)

AuthSpec == AuthInit /\ [][AuthNext]_vars

\* The gate alone: page and API requests arrive one after the other, each with
\* any path of the universe and any credential state, and the gate classifies
\* each.
GateInit ==
    /\ req \in [path : Paths, cred : Creds, outcome : {Unclassified}, n : {0}]
    /\ session = "none"
    /\ auth = SignedOut
    /\ sessionStatus = "unauthenticated"
    /\ location = LoginPath
    /\ AppInit

\* For comparison: a gate that deletes the session cookie of a request it
\* denies.
ClassifyClearing ==
    /\ req.outcome = Unclassified
    /\ req' = [req EXCEPT !.outcome = Gate(req.path, req.cred)]
    /\ session' = IF req'.outcome = Admitted THEN session ELSE "none"
    /\ UNCHANGED <<todosState, auth, sessionStatus, authToken, location, since401, remote, remoteNext, cache,
                   observed, mut, net, ops>>

Classify ==
    /\ req.outcome = Unclassified
    /\ req' = [req EXCEPT !.outcome = Gate(req.path, req.cred)]
    /\ UNCHANGED appVars

NextRequest ==
    /\ req.outcome # Unclassified
    /\ \E p \in Paths, c \in Creds :
         req' = [path |-> p, cred |-> c, outcome |-> Unclassified, n |-> 0]
    /\ UNCHANGED appVars

GateNext == Classify \/ NextRequest

GateSpec == GateInit /\ [][GateNext]_vars

\* The gate and the session: a visitor who starts signed out on the login page
\* signs in and out, the session expires, and requests arrive at the gate one
\* after the other, each with the credential the browser holds when it is
\* sent; the client reads to-do lists in between.
SessionPaths ==
    {RootPath, LoginPath, ApiProtectedPath, Slash \o sTodos, NextPath \o Slash \o <<"x">>}

\* For comparison: a gate that keeps its last decision and gives it again to
\* the next request for the same path.
ArriveCached(path) ==
    /\ req.outcome # Unclassified
    /\ req' = [path |-> path, cred |-> CredOf(session, auth),
               outcome |-> IF path = req.path THEN req.outcome ELSE Unclassified,
               n |-> 1 - req.n]
    /\ UNCHANGED appVars

\* A request for path arrives at the gate.
Arrive(path) ==
    /\ req.outcome # Unclassified
    /\ req' = [path |-> path, cred |-> CredOf(session, auth), outcome |-> Unclassified,
               n |-> 1 - req.n]
    /\ UNCHANGED appVars

SessionNext ==
    \/ \E e \in Emails, p \in Passwords : Login(e, p)
    \/ \E g \in BOOLEAN : LoginOAuth(g)
    \/ Expire
    \/ Logout
    \/ \E t \in Tokens : StoreAuthToken(t)
    \/ \E p \in SessionPaths : Arrive(p)
    \/ Classify
    \/ \E k \in Keys : Mount(k, 1, AuthOps)
    \/ \E i \in ReqIds : Serve(i)
    \/ \E i \in ReqIds : ReceiveQuerySuccess(i)

SessionSpec == AuthInit /\ [][SessionNext]_vars

\* The credential's life: sign-ins with every pair of email and password and
\* through a provider, expiry, sign-out and restarts of the server with
\* another secret, with requests arriving at the gate in between.
LoginPaths == {RootPath, LoginPath}

LoginNext ==
    \/ \E e \in Emails, p \in Passwords : Login(e, p)
    \/ \E g \in BOOLEAN : LoginOAuth(g)
    \/ Expire
    \/ Logout
    \/ \E secret \in Secrets : RotateSecret(secret)
    \/ \E p \in LoginPaths : Arrive(p)
    \/ Classify

LoginSpec == AuthInit /\ [][LoginNext]_vars

\* Sign-out: the signed-in user signs out and in again, the session expires,
\* and pages of every path the gate is checked on are opened in between.
LogoutNext ==
    \/ \E e \in Emails, p \in Passwords : Login(e, p)
    \/ \E g \in BOOLEAN : LoginOAuth(g)
    \/ Expire
    \/ Logout
    \/ \E p \in Paths : Navigate(p)

LogoutSpec == Init /\ [][LogoutNext]_vars

\* Home shows the list: TodoList reads the owner's list (enabled: !!userId).
RenderTodoList(budget) ==
    /\ location = RootPath
    /\ HomeRenders(sessionStatus) = "todos"
    /\ HomeUserId(ClientSession) \in Owners
    /\ Mount(USER_TODOS_QUERY_KEY(HomeUserId(ClientSession)), 1, budget)

\* The list leaves the screen with the page that showed it.
UnmountTodoList ==
    /\ location # RootPath \/ HomeRenders(sessionStatus) # "todos"
    /\ \E k \in observed : Unmount(k)

\* The two pages and their guards: the browser shows / to a signed-in user or
\* /login to a visitor, the session provider still loading or not; the user
\* signs in and out, the session expires, a token is stored, the pages'
\* effects run, the list is read on the home page and the remote answers it
\* or refuses it with 401.
PageInit ==
    /\ \/ /\ session = "valid"
          /\ auth = SignedIn
          /\ location = RootPath
          /\ req = [path |-> RootPath, cred |-> "valid", outcome |-> Admitted, n |-> 0]
          /\ sessionStatus \in {"loading", "authenticated"}
       \/ /\ session = "none"
          /\ auth = SignedOut
          /\ location = LoginPath
          /\ req = [path |-> LoginPath, cred |-> "absent", outcome |-> Admitted, n |-> 0]
          /\ sessionStatus \in {"loading", "unauthenticated"}
    /\ AppInit

PageNext ==
    \/ \E e \in Emails, p \in Passwords : Login(e, p)
    \/ Expire
    \/ Logout
    \/ SessionLoaded
    \/ \E t \in Tokens : StoreAuthToken(t)
    \/ LoginPageEffect
    \/ HomeEffect
    \/ RenderTodoList(CacheOps)
    \/ UnmountTodoList
    \/ \E i \in ReqIds : Serve(i)
    \/ \E i \in ReqIds : Fail(i, 401)
    \/ \E i \in ReqIds : ReceiveQuerySuccess(i)
    \/ \E i \in ReqIds : ReceiveFailure(i)
    \/ \E i \in ReqIds : RetrySend(i)

PageSpec == PageInit /\ [][PageNext]_vars

\* The slice alone: components dispatch its actions in any order, with any
\* payload.
SliceNext ==
    \/ \E list \in TodoLists : DispatchSetTodos(list)
    \/ \E t \in NewTodos : DispatchAddTodo(t)
    \/ \E t \in SliceTodos : DispatchUpdateTodo(t)
    \/ \E i \in Ids : DispatchDeleteTodo(i)
    \/ \E b \in BOOLEAN : DispatchSetLoading(b)
    \/ \E e \in SliceErrors : DispatchSetError(e)

SliceSpec == Init /\ [][SliceNext]_vars

-----------------------------------------------------------------------------
(* The access gate: claims C1 to C3, under GateSpec *)

\* The entries of the public allow-list: the login page, the namespace of the
\* authentication protocol, and the static-asset namespaces.
AllowList == {LoginPath, ApiAuthPath, NextPath, FaviconPath}

\* path is an entry or lies below one, segment by segment.
OnAllowList(path) ==
    \E e \in AllowList : path = e \/ StartsWith(path, e \o Slash)

\* path starts with the characters of an entry.
SharesPrefix(path) == \E e \in AllowList : StartsWith(path, e)

Classified == req.outcome # Unclassified

\* C1: a request for a path that is not on the public allow-list, even read
\* as raw prefixes, is admitted when its credential is valid and is otherwise
\* denied and redirected to /login.
C1_ProtectedIffCredential ==
    (Classified /\ ~SharesPrefix(req.path)) =>
        req.outcome = IF req.cred = "valid" THEN Admitted ELSE Denied(LoginPath)

\* C2: a request for a path on the public allow-list is admitted in every
\* credential state.
C2_PublicAlwaysAdmitted ==
    (Classified /\ OnAllowList(req.path)) => req.outcome = Admitted

C2_Witness ==
    /\ Classified
    /\ req.path = ApiAuthPath \o Slash \o <<"c", "a", "l", "l", "b", "a", "c", "k">>
                      \o Slash \o <<"g", "o", "o", "g", "l", "e">>
    /\ req.cred = "absent"
    /\ req.outcome = Admitted

\* C3: a request without a valid credential for a path that only shares its
\* leading characters with an entry of the allow-list is denied.
C3_ExactSegmentMatching ==
    (Classified /\ SharesPrefix(req.path) /\ ~OnAllowList(req.path)
        /\ req.cred # "valid") =>
        req.outcome = Denied(LoginPath)

-----------------------------------------------------------------------------
(* The facade and the session: claims C4 to C6 *)

\* Slot i holds a request that this step sends: a first attempt or a retry.
Sends(i) == net'[i].phase = "sent" /\ (net[i].phase # "sent" \/ net'[i] # net[i])

\* This step is a page request for the protected home page.
NavigatesHome == req'.n # req.n /\ req'.path = RootPath

\* C4: once a 401 was handled, the local credential is cleared and the next
\* request for a protected page is denied and redirected to /login.
C4_After401Redirected ==
    [][ /\ (\E i \in ReqIds : net[i].phase = "responded" /\ net[i].status = 401
                                /\ net'[i] # net[i])
            => authToken' = Null
        /\ (since401 /\ NavigatesHome) => req'.outcome = Denied(LoginPath) ]_vars

\* C5: a request is sent with Authorization: Bearer <token> when a token is
\* stored, and with no Authorization header when none is.
C5_BearerIffCredential ==
    [][ \A i \in ReqIds :
          Sends(i) =>
            net'[i].headers.Authorization =
                IF authToken # Null THEN Bearer(authToken) ELSE NoHeader ]_vars

C5_Witness ==
    \E i \in ReqIds :
        /\ net[i].phase = "sent"
        /\ net[i].failureCount = 1
        /\ authToken \in Tokens
        /\ net[i].headers.Authorization = Bearer(authToken)

\* C6: a request sent while the user is signed in carries an Authorization
\* header.
C6_LoggedInRequestsCarryToken ==
    [][ \A i \in ReqIds :
          (session = "valid" /\ Sends(i)) =>
            net'[i].headers.Authorization # NoHeader ]_vars

-----------------------------------------------------------------------------
(* The mutation hooks and the cache: claims C7 to C10, under Spec *)

\* C7: no POST /todos is sent a second time for the same invocation of create.
C7_CreateSentOnce ==
    \A i \in ReqIds :
        (net[i].phase = "sent" /\ net[i].method = "POST") => net[i].failureCount = 0

\* This step is the success of the mutation of this kind whose request is in
\* slot i.
Succeeds(i, kind) ==
    /\ net[i].phase = "responded"
    /\ net[i].status = 200
    /\ net[i].kind = kind
    /\ net'[i] # net[i]

CachedKeys(c) == { k \in Keys : c[k].exists }

HasId(list, id) == \E j \in 1..Len(list) : list[j].id = id

\* C8: on the success of create the new item is put in front of the list
\* entry when the cache holds that entry, the set of cached keys stays as it
\* was, and the entry of the new item's owner is invalidated.
C8_CreatePrependsIfPresent ==
    [][ \A i \in ReqIds :
          Succeeds(i, "create") =>
            /\ cache[TODOS_QUERY_KEY].hasData =>
                 cache'[TODOS_QUERY_KEY].data
                     = <<net[i].data>> \o cache[TODOS_QUERY_KEY].data
            /\ CachedKeys(cache') = CachedKeys(cache)
            /\ cache[USER_TODOS_QUERY_KEY(net[i].data.userId)].exists =>
                 cache'[USER_TODOS_QUERY_KEY(net[i].data.userId)].isInvalidated ]_vars

\* C9: on the success of delete(id), whatever the cache holds, the list entry
\* does not hold the item, and the entry of every owner that held it is
\* invalidated.
C9_DeleteRemovesAndInvalidates ==
    [][ \A i \in ReqIds :
          Succeeds(i, "delete") =>
            /\ ~HasId(cache'[TODOS_QUERY_KEY].data, net[i].path[2])
            /\ \A u \in Owners :
                 HasId(cache[USER_TODOS_QUERY_KEY(u)].data, net[i].path[2]) =>
                     cache'[USER_TODOS_QUERY_KEY(u)].isInvalidated ]_vars

\* C10: on the success of update the returned item is the value of the entry
\* of its id, it stands in the list entry in the place of the item with its
\* id while the length and the other items stay, and the entry of its owner
\* is invalidated.
C10_UpdateReplaces ==
    [][ \A i \in ReqIds :
          Succeeds(i, "update") =>
            LET item == net[i].data
                old == cache[TODOS_QUERY_KEY]
                new == cache'[TODOS_QUERY_KEY]
            IN  /\ cache'[SINGLE_TODO_QUERY_KEY(item.id)].hasData
                /\ cache'[SINGLE_TODO_QUERY_KEY(item.id)].data = item
                /\ old.hasData =>
                     /\ new.hasData
                     /\ Len(new.data) = Len(old.data)
                     /\ \A j \in 1..Len(old.data) :
                          new.data[j] = IF old.data[j].id = item.id THEN item
                                        ELSE old.data[j]
                /\ cache[USER_TODOS_QUERY_KEY(item.userId)].exists =>
                     cache'[USER_TODOS_QUERY_KEY(item.userId)].isInvalidated ]_vars

C10_Witness ==
    LET list == cache[TODOS_QUERY_KEY].data
    IN  /\ mut["update"] = "success"
        /\ cache[TODOS_QUERY_KEY].hasData
        /\ Len(list) = 2
        /\ cache[SINGLE_TODO_QUERY_KEY(1)].hasData
        /\ \E j \in 1..2 :
             /\ list[j].id = 1
             /\ list[j].completed
             /\ cache[SINGLE_TODO_QUERY_KEY(1)].data = list[j]
        /\ \E j \in 1..2 : list[j].id = 2 /\ ~list[j].completed

-----------------------------------------------------------------------------
(* The cache under concurrency, time and failure: claims C11 to C17 *)

\* This step applies to the cache the response of the fetch of key that is in
\* slot i.
Completes(i, key) ==
    /\ net[i].phase = "responded"
    /\ net[i].status = 200
    /\ net[i].kind = "query"
    /\ net[i].key = key
    /\ cache[key].fetchReq = i
    /\ net'[i] # net[i]

\* The items of owner u that the remote holds.
OwnedIds(rem, u) == { id \in Ids : rem[id].id # 0 /\ rem[id].userId = u }

\* C11: in a run whose only mutations are creates that have succeeded, a read
\* of an owner's list that completes after the invalidation holds every item
\* the remote holds for that owner.
C11_ReadAfterCreateHoldsNewItem ==
    [][ \A i \in ReqIds, u \in Owners :
          ( /\ Completes(i, USER_TODOS_QUERY_KEY(u))
            /\ cache[USER_TODOS_QUERY_KEY(u)].isInvalidated
            /\ mut = [m \in MutKinds |-> IF m = "create" THEN "success" ELSE "idle"] )
          => \A id \in OwnedIds(remote, u) :
                HasId(cache'[USER_TODOS_QUERY_KEY(u)].data, id) ]_vars

\* This step is a read of key: a component using its query hook mounts.
Reads(key) == key \notin observed /\ key \in observed'

\* C12: a read of a key whose fetch is in flight shares that fetch: it sends
\* no request and the fetch of the key stays the one in flight.
C12_ConcurrentReadsShareFetch ==
    [][ \A k \in Keys :
          (Reads(k) /\ cache[k].fetchReq # 0) =>
              /\ net' = net
              /\ cache'[k].fetchReq = cache[k].fetchReq ]_vars

\* Two reads of the whole list, the second while the first fetch is unresolved.
C12_Witness ==
    /\ ops = 2
    /\ observed = {TODOS_QUERY_KEY}
    /\ cache[TODOS_QUERY_KEY].fetchReq # 0
    /\ ~cache[TODOS_QUERY_KEY].hasData
    /\ \A k \in Keys \ {TODOS_QUERY_KEY} : ~cache[k].exists
    /\ mut = [m \in MutKinds |-> "idle"]
    /\ Cardinality({ i \in ReqIds : net[i].phase # "none" }) = 1

\* The slots whose request this step sends.
Sent == { i \in ReqIds : Sends(i) }

\* C13: a read of an entry that holds data whose freshness window has passed
\* returns that data as it is and leaves exactly one refresh of the key
\* running: it starts one when none runs, and none when one does.
C13_StaleReadRefreshesOnce ==
    [][ \A k \in Keys :
          (Reads(k) /\ cache[k].hasData /\ cache[k].stale) =>
              /\ cache'[k].hasData
              /\ cache'[k].data = cache[k].data
              /\ cache'[k].fetchReq # 0
              /\ \A i \in Sent : net'[i].kind = "query" /\ net'[i].key = k
              /\ Cardinality(Sent) = IF cache[k].fetchReq = 0 THEN 1 ELSE 0 ]_vars

\* The owner's list is read while stale: its data is served and one refresh
\* is in flight.
C13_Witness ==
    LET k == USER_TODOS_QUERY_KEY(1)
    IN  /\ k \in observed
        /\ cache[k].hasData
        /\ cache[k].stale
        /\ ~cache[k].isInvalidated
        /\ cache[k].fetchReq # 0
        /\ net[cache[k].fetchReq].phase = "sent"
        /\ net[cache[k].fetchReq].key = k

\* The entry of a query inside its freshness window: it has data and staleTime
\* has not passed since the data was written; and the same, with no
\* invalidation since.
InWindow(q) == q.hasData /\ ~q.stale
Fresh(q) == InWindow(q) /\ ~q.isInvalidated

\* C14, as stated: within the freshness window of an entry, a repeat read of
\* its key returns the cached value and sends no request.
C14_ReadInWindowSendsNothing ==
    [][ \A k \in Keys :
          (Reads(k) /\ InWindow(cache[k])) =>
              /\ net' = net
              /\ cache'[k].hasData
              /\ cache'[k].data = cache[k].data ]_vars

\* C14, amended: within the freshness window of an entry that no mutation has
\* invalidated since its data was written, a repeat read of its key returns
\* the cached value and sends no request.
C14_FreshReadSendsNothing ==
    [][ \A k \in Keys :
          (Reads(k) /\ Fresh(cache[k])) =>
              /\ net' = net
              /\ cache'[k].hasData
              /\ cache'[k].data = cache[k].data
              /\ cache'[k].fetchReq = 0 ]_vars

\* The list of all items was fetched, its reader went away and came back
\* inside the window: the entry is read again and no request is in flight.
C14_Witness ==
    /\ ops = 2
    /\ observed = {TODOS_QUERY_KEY}
    /\ Fresh(cache[TODOS_QUERY_KEY])
    /\ cache[TODOS_QUERY_KEY].fetchReq = 0
    /\ \A k \in Keys \ {TODOS_QUERY_KEY} : ~cache[k].exists
    /\ mut = [m \in MutKinds |-> "idle"]
    /\ \A i \in ReqIds : net[i].phase = "none"

\* The last try of the fetch in request slot i of the query key fails: the
\* step that puts the query in the error state.
FetchFails(i, key) ==
    /\ net[i].phase = "responded"
    /\ net[i].status # 200
    /\ net[i].kind = "query"
    /\ net[i].key = key
    /\ cache[key].fetchReq = i
    /\ net[i].failureCount >= Retry("query")
    /\ net'[i] # net[i]

\* C15: when the fetch of an owner list that held a value fails, the entry
\* keeps the value and takes the error, and TodoList still shows the value.
C15_FailedFetchStillServesValue ==
    [][ \A i \in ReqIds, u \in Owners :
          LET k == USER_TODOS_QUERY_KEY(u)
          IN  (FetchFails(i, k) /\ cache[k].hasData) =>
                  /\ cache'[k].hasData
                  /\ cache'[k].data = cache[k].data
                  /\ cache'[k].error = {net[i].status}
                  /\ TodoListView(cache'[k]).todos = cache[k].data ]_vars

\* A step of the mutation in request slot i other than its success: the
\* request is sent, answered, received as a failure, or sent again.
MutationStepWithoutSuccess(i) ==
    /\ net'[i] # net[i]
    /\ net[i].kind \in MutKinds \/ net'[i].kind \in MutKinds
    /\ ~(net[i].phase = "responded" /\ net[i].status = 200)

AnswerNow(key) == Served(QueryFn(key), remote, remoteNext)

\* The entry of key holds the value the remote holds now.
UpToDate(key) ==
    /\ cache[key].hasData
    /\ AnswerNow(key).status = 200
    /\ cache[key].data = AnswerNow(key).data

\* C17: a fetch that completes never replaces the value of an entry that is up
\* to date: its response is then older than the value, and is discarded.
C17_LateResponseDiscarded ==
    [][ \A i \in ReqIds, k \in Keys :
          (Completes(i, k) /\ UpToDate(k)) => cache'[k].data = cache[k].data ]_vars

-----------------------------------------------------------------------------
(* The error statuses: claims C18 to C20 *)

\* The client receives the answer with this status to the request in slot i,
\* which is a mutation or the current fetch of its query.
ReceivesStatus(i, status) ==
    /\ net[i].phase = "responded"
    /\ net[i].status = status
    /\ Current(cache, i, net[i])
    /\ net'[i] # net[i]

\* The call of request slot i ends in an error with this status: the slot is
\* free again, and the query has the error or the mutation is in the error
\* state.
EndsInError(i, status) ==
    /\ net'[i] = NoReq
    /\ IF net[i].kind = "query"
       THEN cache'[net[i].key].error = {status} /\ cache'[net[i].key].fetchReq = 0
       ELSE mut'[net[i].kind] = "error"

\* C18: the first 429 answer to a call is followed by one retry, and the 429
\* answer to that retry ends the call in the error: a call makes at most two
\* requests.
C18_RateLimitedRetriedOnce ==
    [][ \A i \in ReqIds :
          ReceivesStatus(i, 429) =>
              IF net[i].failureCount = 0
              THEN net'[i].phase = "retrywait" /\ net'[i].failureCount = 1
              ELSE net[i].failureCount = 1 /\ EndsInError(i, 429) ]_vars

\* The one read of the whole list was answered 429 twice and has ended in the
\* error.
C18_Witness ==
    /\ ops = 1
    /\ observed = {TODOS_QUERY_KEY}
    /\ cache[TODOS_QUERY_KEY].error = {429}
    /\ ~cache[TODOS_QUERY_KEY].hasData
    /\ cache[TODOS_QUERY_KEY].fetchReq = 0
    /\ \A i \in ReqIds : net[i].phase = "none"

\* The interceptor rejects the answer to request slot i: the retryer sends the
\* request again, or the call ends in the error; no success callback runs and
\* no data is written.
Rejected(i, status) ==
    /\ \/ net'[i].phase = "retrywait" /\ net'[i].failureCount = net[i].failureCount + 1
       \/ EndsInError(i, status)
    /\ \A k \in Keys : cache'[k].hasData = cache[k].hasData /\ cache'[k].data = cache[k].data
    /\ \A m \in MutKinds : mut'[m] # mut[m] => mut'[m] = "error"

\* C19: a 403 answer is rejected to the caller, and the stored token and the
\* page the browser is on stay as they are.
C19_ForbiddenKeepsCredential ==
    [][ \A i \in ReqIds :
          ReceivesStatus(i, 403) =>
              /\ Rejected(i, 403)
              /\ authToken' = authToken
              /\ session' = session
              /\ location' = location
              /\ req' = req ]_vars

\* A read by a client with a stored token was answered 403 twice: the query
\* holds the error, the token is still stored and the browser is on the home
\* page.
C19_Witness ==
    /\ authToken # Null
    /\ location = RootPath
    /\ \E k \in Keys : cache[k].error = {403} /\ cache[k].fetchReq = 0
    /\ \A i \in ReqIds : net[i].phase = "none"

\* C20: a request that gets no response (status 0: the network fails or the
\* 30 second timeout expires) is rejected to the caller, and the stored token
\* and the page the browser is on stay as they are.
C20_UnreachableKeepsCredential ==
    [][ \A i \in ReqIds :
          ReceivesStatus(i, 0) =>
              /\ Rejected(i, 0)
              /\ authToken' = authToken
              /\ session' = session
              /\ location' = location
              /\ req' = req ]_vars

\* The read of the whole list by a client with a stored token got no response
\* twice: the query holds the error, the token is still stored and the
\* browser is on the home page.
C20_Witness ==
    /\ authToken # Null
    /\ location = RootPath
    /\ since401 = FALSE
    /\ cache[TODOS_QUERY_KEY].error = {0}
    /\ cache[TODOS_QUERY_KEY].fetchReq = 0
    /\ \A i \in ReqIds : net[i].phase = "none"

-----------------------------------------------------------------------------
(* The access gate, the session and the cache keys: claims C21 to C30 *)

\* The visibility tag the gate gives a path: public when it admits a request
\* for it that carries no credential, else protected.
Tag(outcome) == IF outcome = Admitted THEN "public" ELSE "protected"

\* C21: a path has the tag public exactly when it is on the allow-list (also
\* when the catch-all pattern matches it), and the tag protected otherwise.
C21_OneTagAllowListFirst ==
    (Classified /\ req.cred = "absent") =>
        Tag(req.outcome) = IF OnAllowList(req.path) THEN "public" ELSE "protected"


\* C22: a request for a path under /_next/ or for /favicon.ico is admitted in
\* every credential state.
C22_StaticAssetsAlwaysAdmitted ==
    (Classified /\ (StartsWith(req.path, NextPath \o Slash) \/ req.path = FaviconPath)) =>
        req.outcome = Admitted

\* A request without credential for /_next/x, a path under /_next/ that the
\* matcher does not keep away from the proxy, was admitted.
C22_Witness ==
    /\ Classified
    /\ req.path = NextPath \o Slash \o <<"x">>
    /\ MatcherMatches(req.path)
    /\ req.cred = "absent"
    /\ req.outcome = Admitted

\* C23: a classified request keeps its outcome; a request is classified once,
\* as admitted or denied; it carries the credential the session gives when it
\* is sent; and the outcome of a request for the home page is admitted exactly
\* when its own credential is valid, whatever was decided before.
C23_DecidedOncePerRequest ==
    [][ /\ (req.outcome # Unclassified /\ req'.n = req.n) => req' = req
        /\ (req.outcome = Unclassified /\ req'.n = req.n /\ req' # req) =>
               /\ req' = [req EXCEPT !.outcome = req'.outcome]
               /\ req'.outcome \in {Admitted, Denied(LoginPath)}
        /\ req'.n # req.n => req'.cred = CredOf(session', auth')
        /\ (req'.outcome # Unclassified /\ req'.path = RootPath) =>
               (req'.outcome = Admitted <=> req'.cred = "valid") ]_vars

\* A request for the home page sent after the sign-in was admitted, on the
\* login page the browser was left on by the sign-out before.
C23_Witness ==
    /\ req.path = RootPath
    /\ req.cred = "valid"
    /\ req.outcome = Admitted
    /\ session = "valid"
    /\ req.n = 0

\* C24: every classified request is admitted or denied with the redirect to
\* /login; a request whose credential fails validation gets the outcome the
\* same path gets without credential, which for / and below /api/protected
\* is the denial.
C24_FailedValidationDenies ==
    Classified =>
        /\ req.outcome \in {Admitted, Denied(LoginPath)}
        /\ req.cred = "invalid" =>
               /\ req.outcome = Gate(req.path, "absent")
               /\ (req.path = RootPath \/ StartsWith(req.path, ApiProtectedPath)) =>
                      req.outcome = Denied(LoginPath)

\* A request for /api/protected/x with a credential that fails validation was
\* denied.
C24_Witness ==
    /\ Classified
    /\ req.path = ApiProtectedPath \o Slash \o <<"x">>
    /\ req.cred = "invalid"
    /\ req.outcome = Denied(LoginPath)

\* C25: the step that classifies a request leaves the session, the stored
\* token and the cache as they are.
C25_DecisionHasNoSideEffect ==
    [][ (req.outcome = Unclassified /\ req'.outcome # Unclassified /\ req'.n = req.n) =>
            /\ session' = session
            /\ authToken' = authToken
            /\ cache' = cache ]_vars

\* A request with an expired credential for the home page was denied; the
\* session is still the expired one, a token is stored and the cache holds the
\* list of all items.
C25_Witness ==
    /\ req.path = RootPath
    /\ req.cred = "invalid"
    /\ req.outcome = Denied(LoginPath)
    /\ session = "expired"
    /\ authToken # Null
    /\ cache[TODOS_QUERY_KEY].hasData

\* The entry of key is marked invalidated by this step.
Invalidated(key) ==
    cache[key].exists /\ ~cache[key].isInvalidated /\ cache'[key].isInvalidated

\* key lies in the family of prefix.
HasPrefix(key, prefix) ==
    /\ Len(prefix) <= Len(key)
    /\ \A i \in 1..Len(prefix) : key[i] = prefix[i]

\* The least prefixes under which the step that marks key can have been
\* made when it leaves the list of all items unmarked: the key itself, and
\* the owner prefix for an owner list.
OwnPrefix(key) == IF Len(key) = 3 THEN SubSeq(key, 1, 2) ELSE key

Purged(key) == cache[key].exists /\ ~cache'[key].exists

\* C27: the cache removes an entry only when it has no observer and the
\* removal timer that fires was set when or after its last observer left, so
\* that gcTime has passed since; and an entry without observer is removed in
\* the end, unless it is observed again.
C27_PurgedAfterRetentionOnly ==
    /\ [][ \A k \in Keys :
              Purged(k) =>
                  /\ k \notin observed
                  /\ cache[k].gcTimer = "afterObserved" ]_vars
    /\ \A k \in Keys :
          (cache[k].exists /\ k \notin observed) ~> (~cache[k].exists \/ k \in observed)

\* The list of owner 1 was read twice and left twice, and the cache has
\* removed it.
C27_Witness ==
    /\ ops = 2
    /\ observed = {}
    /\ \A k \in Keys : ~cache[k].exists
    /\ \A i \in ReqIds : net[i].phase = "none"
    /\ mut = [m \in MutKinds |-> "idle"]

\* C28: a sign-in with email and password issues a credential exactly when
\* the pair is demo@example.com and "password": then the sign-in succeeds and
\* the cookie holds a token of that identity; with every other pair the
\* sign-in fails with InvalidCredentials and the cookie stays as it was.
C28_OnlyDemoPairSignsIn ==
    [][\A e \in Emails, p \in Passwords :
         Login(e, p) =>
           IF e = "demo@example.com" /\ p = "password"
           THEN /\ auth'.result.ok
                /\ auth'.result.error = Null
                /\ session' = "valid"
                /\ auth'.jwt # NoJwt
                /\ auth'.jwt.token.email = e
           ELSE /\ ~auth'.result.ok
                /\ auth'.result.error = "InvalidCredentials"
                /\ auth'.jwt = auth.jwt
                /\ session' = session]_vars

\* A sign-in with the demo email and another password has failed, and the
\* visitor holds no credential.
C28_Witness ==
    /\ auth.result.email = "demo@example.com"
    /\ auth.result.password = "wrong"
    /\ auth.result.error = "InvalidCredentials"
    /\ auth.jwt = NoJwt
    /\ session = "none"

\* The cookie's expiry time has not passed and its signature verifies against
\* the secret the server runs with.
Verifies == session = "valid" /\ auth.jwt # NoJwt /\ auth.jwt.signedWith = auth.secret

\* C29: a credential validates exactly when its expiry time has not passed
\* and its signature verifies against the server's current secret: callers
\* get a session exactly then, and a request for a protected page that
\* arrives with the cookie is let through exactly then.  A cookie signed with
\* one secret fails under the other, and an expired one fails with the right
\* signature.
C29_ValidIffUnexpiredAndSigned ==
    /\ [](SessionOf(session, auth) # NoSession <=> Verifies)
    /\ [][\A p \in LoginPaths :
            Arrive(p) =>
              /\ req'.cred = "valid" <=> Verifies
              /\ p = RootPath => (Gate(p, req'.cred) = Admitted <=> Verifies)]_vars

\* A request for the home page arrived with an unexpired cookie signed with
\* the first secret at a server running with the second, and was denied.
C29_Witness ==
    /\ session = "valid"
    /\ auth.jwt.signedWith = "S1"
    /\ auth.secret = "S2"
    /\ req.path = RootPath
    /\ req.cred = "invalid"
    /\ req.outcome # Unclassified
    /\ req.outcome # Admitted

\* C30: the subject id a sign-in puts into the token is the id of the user
\* record the provider returned, the same at every sign-in of an identity;
\* the token keeps it until the cookie is replaced by another sign-in or
\* removed, and every validation that succeeds returns it in the session.
C30_SubjectIdEchoed ==
    /\ [](SessionOf(session, auth) # NoSession =>
            SessionOf(session, auth).user.id = auth.jwt.token.sub)
    /\ [][\A e \in Emails, p \in Passwords :
            Login(e, p) /\ Authorize(e, p) =>
              /\ auth'.jwt.token.sub = DemoUser.id
              /\ SessionOf(session', auth').user.id = DemoUser.id]_vars
    /\ [][LoginOAuth(TRUE) =>
            /\ auth'.jwt.token.sub = OAuthUser.id
            /\ SessionOf(session', auth').user.id = OAuthUser.id]_vars
    /\ [][auth'.jwt # auth.jwt =>
            \/ auth'.jwt = NoJwt
            \/ auth'.result.ok /\ auth'.jwt.token.sub = auth'.result.user.id]_vars

\* The demo user signed in with the password and a later request for the
\* home page was let through; the session gives the demo user's id.
C30_Witness ==
    /\ auth.result.password = "password"
    /\ auth.result.ok
    /\ req.path = RootPath
    /\ req.outcome = Admitted
    /\ req.cred = "valid"
    /\ SessionOf(session, auth).user.id = DemoUser.id
    /\ SessionOf(session, auth).user.email = "demo@example.com"

-----------------------------------------------------------------------------
(* Sign-out, the page guards, the interceptor and the slice: claims C31 to C39 *)

\* C31: sign-out removes the session cookie and ends on /login, and from then
\* on, as long as nobody has signed in again, every page request for a path
\* that is not on the public allow-list is denied and ends on /login.
C31_LogoutRedirectsProtected ==
    /\ [][Logout => session' = "none" /\ auth'.jwt = NoJwt /\ location' = LoginPath]_vars
    /\ [][\A p \in Paths :
            (Navigate(p) /\ session = "none" /\ ~OnAllowList(p)) =>
               (req'.outcome = Denied(LoginPath) /\ location' = LoginPath)]_vars

\* No two positions of list hold items with the same id.
DistinctIds(list) ==
    \A i, j \in 1..Len(list) : list[i].id = list[j].id => i = j

\* C32: whatever the order in which the answers of list fetches and of
\* create, update and delete requests arrive, the list of all items in the
\* cache never holds two items with the same id.
C32_ListHasNoDuplicateId ==
    cache[TODOS_QUERY_KEY].hasData => DistinctIds(cache[TODOS_QUERY_KEY].data)

\* This step handles a 401 answer.
Receives401 ==
    \E i \in ReqIds :
       net[i].phase = "responded" /\ net[i].status = 401 /\ net'[i] # net[i]

\* C33: the step that handles a 401 answer ends on /login, and from then on
\* the browser stays on /login until a sign-in succeeds, whether the session
\* cookie is still valid or not: no effect of a page takes it back to /.
C33_After401StaysOnLogin ==
    /\ [][Receives401 => location' = LoginPath]_vars
    /\ [][(since401 /\ location = LoginPath) => location' = LoginPath]_vars

\* C34: the home page sends the browser to /login only when the status is
\* unauthenticated and the login page sends it to / only when the status is
\* authenticated, so neither does while the status is loading and the page a
\* guard sends the browser to does not send it back; the to-do list is read
\* only on the home page of an authenticated user.
C34_GuardsDoNotBounce ==
    /\ [][HomeEffect =>
            sessionStatus = "unauthenticated" /\ ~LoginPageRedirects(sessionStatus')]_vars
    /\ [][LoginPageEffect =>
            sessionStatus = "authenticated" /\ ~HomeRedirects(sessionStatus')]_vars
    /\ [][(observed' \ observed # {}) =>
            sessionStatus = "authenticated" /\ location = RootPath]_vars

\* The session of a user on the home page expired, the provider learnt of it,
\* and the home page sent the browser to /login, where it stays.
C34_Witness ==
    /\ session = "expired"
    /\ sessionStatus = "unauthenticated"
    /\ location = LoginPath
    /\ req.path = LoginPath
    /\ ~since401

\* pathname is a public route by the prefix list of callbacks.authorized.
IsPublicRoute(pathname) == \E route \in publicRoutes : StartsWith(pathname, route)

\* C35: on every path the matcher hands to the proxy, the prefix list of
\* callbacks.authorized names no public route, so the callback says yes
\* exactly when the request carries a token.
C35_PublicBranchNeverDecides ==
    (Classified /\ MatcherMatches(req.path)) =>
        /\ ~IsPublicRoute(req.path)
        /\ authorized(GetToken(req.cred), req.path) <=> GetToken(req.cred) # Null

\* The proxy ran on a request for /api without a credential; the callback
\* said no and the request was denied.
C35_Witness ==
    /\ Classified
    /\ req.path = Slash \o sApi
    /\ MatcherMatches(req.path)
    /\ req.cred = "absent"
    /\ ~authorized(GetToken(req.cred), req.path)
    /\ req.outcome = Denied(LoginPath)

\* The statuses of the answers that are errors: the ones the remote refuses
\* with, no response (0), and the 404 of an item that does not exist.
FailureStatuses == ErrorStatuses \cup {404}

\* C36: every answer that is an error, with any status or with no response,
\* reaches the caller as a rejection with that same status, after the token
\* was removed and the browser sent to /login for a 401 and with both left
\* alone otherwise; every successful answer reaches the caller as it is.
C36_FailureNeverSwallowed ==
    /\ [][\A i \in ReqIds, s \in FailureStatuses :
            ReceivesStatus(i, s) =>
              /\ Rejected(i, s)
              /\ authToken' = (IF s = 401 THEN Null ELSE authToken)
              /\ location' = (IF s = 401 THEN LoginPath ELSE location)]_vars
    /\ [][\A i \in ReqIds :
            ReceivesStatus(i, 200) =>
              /\ net'[i] # net[i]
              /\ IF net[i].kind = "query"
                 THEN /\ cache'[net[i].key].hasData
                      /\ cache'[net[i].key].data = net[i].data
                      /\ cache'[net[i].key].error = NoError
                 ELSE mut'[net[i].kind] = "success"]_vars

\* The read of an item that does not exist was answered 404 twice: the query
\* holds that error, and the token and the page are as they were.
C36_Witness ==
    /\ cache[SINGLE_TODO_QUERY_KEY(2)].error = {404}
    /\ cache[SINGLE_TODO_QUERY_KEY(2)].fetchReq = 0
    /\ ~cache[SINGLE_TODO_QUERY_KEY(2)].hasData
    /\ authToken # Null
    /\ location = RootPath

\* The step marks the entry of key invalidated.
BecomesInvalidated(key) == ~cache[key].isInvalidated /\ cache'[key].isInvalidated

\* C37: the success callback of a mutation marks no entry invalidated but
\* one owner list, for create and update the list of the owner of the item
\* the remote returned, and leaves the lists of the other owners as they
\* are; no key of a single item is the key of an owner list.
C37_OwnerInvalidationIsLocal ==
    /\ [](\A id \in Ids, u \in Owners :
            SINGLE_TODO_QUERY_KEY(id) # USER_TODOS_QUERY_KEY(u))
    /\ [][\A i \in ReqIds, m \in MutKinds :
            Succeeds(i, m) =>
              \E u \in Owners :
                 /\ m # "delete" => u = net[i].data.userId
                 /\ \A k \in Keys :
                       BecomesInvalidated(k) => k = USER_TODOS_QUERY_KEY(u)
                 /\ \A v \in Owners \ {u} :
                       cache'[USER_TODOS_QUERY_KEY(v)] = cache[USER_TODOS_QUERY_KEY(v)]]_vars

\* The list of owner 1 was read, then an item of owner 1 was created: the
\* owner's list is marked invalidated, the list of all items holds the new
\* item and is not marked.
C37_Witness ==
    /\ mut["create"] = "success"
    /\ cache[USER_TODOS_QUERY_KEY(1)].hasData
    /\ cache[USER_TODOS_QUERY_KEY(1)].isInvalidated
    /\ cache[TODOS_QUERY_KEY].hasData
    /\ HasId(cache[TODOS_QUERY_KEY].data, 2)
    /\ ~cache[TODOS_QUERY_KEY].isInvalidated

\* This step is a sign-out: the session cookie is removed.
SignsOut == session # "none" /\ session' = "none"

\* C38: sign-out removes the session and nothing of the client's data: every
\* cache entry, the stored bearer token and the requests in flight are after
\* the step what they were before it.
C38_LogoutKeepsCacheAndToken ==
    [][SignsOut =>
         /\ auth'.jwt = NoJwt
         /\ cache' = cache
         /\ authToken' = authToken
         /\ observed' = observed
         /\ net' = net]_vars

\* A token was stored and the home page of the signed-in user read the list
\* of owner 1; after sign-out the browser is on /login, and the token and the
\* list are still there.
C38_Witness ==
    /\ session = "none"
    /\ sessionStatus = "unauthenticated"
    /\ location = LoginPath
    /\ req.path = LoginPath
    /\ authToken # Null
    /\ cache[USER_TODOS_QUERY_KEY(1)].hasData
    /\ cache[USER_TODOS_QUERY_KEY(1)].data # <<>>

\* The items of a list without those of one id, in the list's order.
RECURSIVE Others(_, _)
Others(list, id) ==
    IF list = <<>> THEN <<>>
    ELSE IF Head(list).id = id THEN Others(Tail(list), id)
    ELSE <<Head(list)>> \o Others(Tail(list), id)

\* C39: in the Redux slice, updateTodo never changes the number or the order
\* of the items: it replaces the first item whose id is the payload's id and
\* nothing else, and leaves the state as it is when no item has that id;
\* deleteTodo(id) leaves no item with that id, keeps the other items in their
\* order, and a second deleteTodo(id) changes nothing.
C39_SliceUpdateAndDelete ==
    /\ [][\A t \in SliceTodos : DispatchUpdateTodo(t) =>
            /\ Len(todosState'.items) = Len(todosState.items)
            /\ \A i \in 1..Len(todosState.items) :
                  todosState'.items[i] =
                      IF /\ todosState.items[i].id = t.id
                         /\ \A j \in 1..(i - 1) : todosState.items[j].id # t.id
                      THEN t
                      ELSE todosState.items[i]
            /\ todosState'.loading = todosState.loading
            /\ todosState'.error = todosState.error]_vars
    /\ [][\A t \in SliceTodos : DispatchUpdateTodo(t) =>
            ((\A i \in 1..Len(todosState.items) : todosState.items[i].id # t.id)
                => todosState' = todosState)]_vars
    /\ [][\A id \in Ids : DispatchDeleteTodo(id) =>
            /\ \A i \in 1..Len(todosState'.items) : todosState'.items[i].id # id
            /\ todosState'.items = Others(todosState.items, id)
            /\ todosSlice_deleteTodo(todosState', id) = todosState']_vars

\* Two items with the same id are in the slice; the first has been updated,
\* the second is as it was added.
C39_Witness ==
    /\ Len(todosState.items) >= 2
    /\ todosState.items[1] = Todo(1, 1, "a", TRUE)
    /\ todosState.items[2] = Todo(1, 1, "a", FALSE)

====
